---- MODULE Spec2Model ----
(***************************************************************************)
(* A model of ue5-mcp_server.py: the helpers get_all_level_actors,         *)
(* spawn_blueprint_actor and duplicate_snowman and the tools built on      *)
(* them, run against a remote engine whose every call may succeed, return  *)
(* an empty result, or fail at the transport level.                        *)
(*                                                                         *)
(* Actor references are the positive naturals; NoRef is Python's None (a   *)
(* falsy actor path).  Scale factors are held in tenths (10 is 1.0).       *)
(***************************************************************************)
EXTENDS Integers, Sequences, FiniteSets, TLC

\* ------------------------------------------------------------- bounds
\* Number of actors in the level when an invocation starts: 1..MaxLevel.
MaxLevel == 1
\* The poses an invocation may request: PoseOf(0) .. PoseOf(MaxPose).
MaxPose == 1
\* The number of optional fields a modify_actor request may specify.
MaxFields == 2
\* The snapshot diff is applied to listings of at most MaxListing references.
MaxListing == 3

\* ---------------------------------------------------------- constants
NoRef == 0
NoName == "<None>"
NoValue == -1
UnitScale == <<10, 10, 10>>
TransportErrors == {"Timeout", "Unreachable", "RemoteRejected"}
SubsystemPath == "/Script/UnrealEd.Default__EditorActorSubsystem"
LevelLibraryPath == "/Script/EditorScriptingUtilities.Default__EditorLevelLibrary"
NoParams == <<>>
SNOWMAN_WIDTH == 350
SNOWMAN_LENGTH == 350

\* ------------------------------------------------------------ helpers
Last(s) == s[Len(s)]

Range(s) == {s[i] : i \in 1..Len(s)}

RECURSIVE SelectSeqNotIn(_, _)
\* [actor for actor in after if actor not in before]
SelectSeqNotIn(after, before) ==
  IF after = <<>> THEN <<>>
  ELSE IF after[1] \in Range(before)
       THEN SelectSeqNotIn(Tail(after), before)
       ELSE <<after[1]>> \o SelectSeqNotIn(Tail(after), before)

\* A pose request: location in cm, rotation in degrees, scale in tenths.
PoseOf(p) ==
  [location |-> <<100 * p, 100 * p + 10, 100 * p + 20>>,
   rotation |-> <<0, 45 * p, 0>>,
   scale    |-> <<10 + 2 * p, 10 + 2 * p, 10 + 2 * p>>]

\* The pose the engine holds for an actor that was in the level at start;
\* made_by names the invocation whose call created an actor, 0 for none.
InitialPose(r) ==
  [location |-> <<r, 7, 9>>, rotation |-> <<0, 90, 0>>, scale |-> <<10, 20, 10>>,
   label |-> "Actor", made_by |-> 0]

\* ---------------------------------------------------------- responses
\* A transport response: status "OK" (2xx with a JSON body) or a transport
\* error; has says whether the body holds a ReturnValue key, rv its value.
OkWith(v) == [status |-> "OK", has |-> TRUE, rv |-> v]

OkEmpty(dummy) == [status |-> "OK", has |-> FALSE, rv |-> dummy]

Failed(e, dummy) == [status |-> e, has |-> FALSE, rv |-> dummy]

Failures(dummy) == {Failed(e, dummy) : e \in TransportErrors}

\* requests.put(...) followed by response.raise_for_status()
Raises(resp) == resp.status # "OK"

\* result.get("ReturnValue", default)
ReturnValueOr(resp, default) == IF resp.has THEN resp.rv ELSE default

Call(fn, obj, params, resp) == [fn |-> fn, obj |-> obj, params |-> params, resp |-> resp]

VARIABLES
  level,           \* engine: the level's actors, in listing order
  actors,          \* engine: each actor's location, rotation, scale, label
  level0,          \* the level when the invocation started
  log,             \* every remote call issued, with its response
  pc,              \* position of the running invocation
  args,            \* arguments of the running invocation
  before_actors,   \* duplicate_snowman: snapshot before
  result,          \* duplicate_snowman: ReturnValue of the first Duplicate
  new_actor_path,  \* duplicate_snowman: resolved reference
  variant,         \* duplicate_snowman: payload variant being tried (1..3)
  actor_path,      \* spawn_blueprint_actor: ReturnValue of the spawn call
  current,         \* modify_actor: current_loc / current_rot / current_scale
  modified,        \* modify_actor: whether any group was applied
  results,         \* modify_actor: the per-group entries of the response
  ret,             \* return value of the helper (actor path or NoRef)
  response,        \* the tool's response
  family,          \* spawn_snowman_family: its locals and its helper calls
  me,              \* which invocation is running (1 unless two are interleaved)
  parked,          \* the invocation suspended at a sleep, when two are interleaved
  probe            \* an input pair of the snapshot diff and its output

vars == <<level, actors, level0, log, pc, args, before_actors, result,
          new_actor_path, variant, actor_path, current, modified, results,
          ret, response, family, me, parked, probe>>

engine == <<level, actors>>

\* What the steps of the helpers and of the single tools leave alone.
fixed == <<level0, family, me, parked, probe>>

dup_locals == <<before_actors, result, new_actor_path, variant>>

mod_locals == <<current, modified, results>>

NoArgs == [op |-> "none"]

NoResponse == [kind |-> "none"]

NoFamily == [active |-> FALSE]

NoTask == [pc |-> "none"]

NoProbe == [applied |-> FALSE]

\* The log records the calls of one operation invoked on its own; the
\* family and two interleaved invocations are followed by their own records.
Record(c) == IF family.active \/ parked # NoTask THEN log ELSE Append(log, c)

\* ------------------------------------------------------------- engine
NewRef == Len(level) + 1

EngineSame(resp) == [resp |-> resp, level |-> level, actors |-> actors]

\* The engine adds an actor with the given placement at the end of the level.
EngineCreate(resp, location, rotation, scale) ==
  [resp |-> resp,
   level |-> Append(level, NewRef),
   actors |-> actors @@ (NewRef :> [location |-> location, rotation |-> rotation,
                                    scale |-> scale, label |-> "Actor",
                                    made_by |-> me])]

EngineSet(resp, obj, field, value) ==
  [resp |-> resp,
   level |-> level,
   actors |-> IF obj \in DOMAIN actors
              THEN [actors EXCEPT ![obj] = [@ EXCEPT ![field] = value]]
              ELSE actors]

\* GetAllLevelActors: the listing, an empty result, or a transport error.
GetAllLevelActorsOutcomes ==
  {EngineSame(OkWith(level)), EngineSame(OkEmpty(<<>>))}
    \cup {EngineSame(f) : f \in Failures(<<>>)}

\* Duplicate: the engine creates the copy and returns it, creates it and
\* returns nothing, silently does nothing, or the call fails.
DuplicateOutcomes(location, scale) ==
  {EngineCreate(OkWith(NewRef), location, <<0, 0, 0>>, scale),
   EngineCreate(OkEmpty(NoRef), location, <<0, 0, 0>>, scale),
   EngineSame(OkEmpty(NoRef))}
    \cup {EngineSame(f) : f \in Failures(NoRef)}

\* A Set* call: applied, or failed and not applied.
SetOutcomes(obj, field, value) ==
  {EngineSet(OkEmpty(NoRef), obj, field, value)}
    \cup {EngineSame(f) : f \in Failures(NoRef)}

\* ------------------------------------------------ get_all_level_actors
\* The try/except around the request is missing: the exception leaves.
MutListRaises(resp) ==
  [raised |-> Raises(resp), value |-> ReturnValueOr(resp, <<>>)]

\* What the helper hands its caller for a response: the listing, or [] on
\* a RequestException; raised says whether an exception leaves the helper.
get_all_level_actors(resp) ==
  IF Raises(resp)
  THEN [raised |-> FALSE, value |-> <<>>]
  ELSE [raised |-> FALSE, value |-> ReturnValueOr(resp, <<>>)]

ListCall(resp) == Call("GetAllLevelActors", SubsystemPath, NoParams, resp)

\* ---------------------------------------------------- duplicate_snowman
IdentityQuat == <<0, 0, 0, 1>>

\* The three wire encodings of the transform; form names the encoding.
\* transform: the structured-typed form.
transform(location, scale) ==
  [form |-> "typed", type |-> "Transform",
   Rotation |-> [type |-> "Quat", X |-> 0, Y |-> 0, Z |-> 0, W |-> 1],
   Scale3D |-> [type |-> "Vector", X |-> scale[1], Y |-> scale[2], Z |-> scale[3]],
   Translation |-> [type |-> "Vector", X |-> location[1], Y |-> location[2],
                    Z |-> location[3]]]

\* transform_alt1: the flat-field form.
transform_alt1(location, scale) ==
  [form |-> "flat",
   Translation |-> [X |-> location[1], Y |-> location[2], Z |-> location[3]],
   Rotation |-> [X |-> 0, Y |-> 0, Z |-> 0, W |-> 1],
   Scale3D |-> [X |-> scale[1], Y |-> scale[2], Z |-> scale[3]]]

\* The positional form holds the scale where the translation belongs.
MutAlt2SwappedFields(location, scale) ==
  [form |-> "array",
   Translation |-> <<scale[1], scale[2], scale[3]>>,
   Rotation |-> IdentityQuat,
   Scale3D |-> <<location[1], location[2], location[3]>>]

\* transform_alt2: the positional-array form.
transform_alt2(location, scale) ==
  [form |-> "array",
   Translation |-> <<location[1], location[2], location[3]>>,
   Rotation |-> IdentityQuat,
   Scale3D |-> <<scale[1], scale[2], scale[3]>>]

\* The NewTransform parameter of the k-th Duplicate call.
NewTransform(k, location, scale) ==
  CASE k = 1 -> transform(location, scale)
    [] k = 2 -> transform_alt1(location, scale)
    [] OTHER -> transform_alt2(location, scale)

duplicate_payload(k, location, scale) ==
  [NewTransform |-> NewTransform(k, location, scale)]

RECURSIVE PositionalDiff(_, _)
PositionalDiff(after, before) ==
  IF after = <<>> THEN <<>>
  ELSE IF before # <<>> /\ after[1] = before[1]
       THEN PositionalDiff(Tail(after), Tail(before))
       ELSE <<after[1]>> \o PositionalDiff(Tail(after),
                                            IF before = <<>> THEN <<>> ELSE Tail(before))

\* The listings are compared position by position, not by membership.
MutPositionalDiff(after, before) == PositionalDiff(after, before)

\* The two listings are taken the wrong way round.
MutDiffSwapped(after, before) == SelectSeqNotIn(before, after)

\* The filter against the before-snapshot is missing.
MutNoFilter(after, before) == after

\* new_actors = [actor for actor in after_actors if actor not in before_actors]
new_actors(after, before) == SelectSeqNotIn(after, before)

\* The first new actor is taken in place of the last.
MutPickFirst(new) == new[1]

\* new_actor_path = new_actors[-1]
PickNewActor(new) == Last(new)

\* Whether the return value of the k-th Duplicate call is looked at.
ReturnValueRead(k) == k = 1

Names == {NoName, "", "Snowman_Left"}

\* The names duplicate_snowman is called with.
DupNames == {NoName, "Snowman_Left"}

\* Python truthiness of an optional name: None and "" are falsy.
Truthy(name) == name # NoName /\ name # ""

\* A fourth attempt before giving up.
MutFourVariants(k) ==
  IF k < 4 THEN [pc |-> "dup_call", variant |-> k + 1]
  ELSE [pc |-> "dup_done", variant |-> k]

\* The return None after the last variant is missing.
MutFallThrough(k) ==
  IF k < 3 THEN [pc |-> "dup_call", variant |-> k + 1]
  ELSE [pc |-> "dup_set_location", variant |-> k]

\* The before-snapshot is taken again before each further variant.
MutRetakeSnapshot(k) ==
  IF k < 3 THEN [pc |-> "dup_before", variant |-> k + 1]
  ELSE [pc |-> "dup_done", variant |-> k]

\* Where duplicate_snowman goes when an attempt found no new actor: the
\* next payload variant, or return None after the third.

NextAfterNoNewActor(k) ==
  IF k < 3 THEN [pc |-> "dup_call", variant |-> k + 1]
  ELSE [pc |-> "dup_done", variant |-> k]

\* --------------------------------------------------------------- Init
InitialLevels == {[i \in 1..n |-> i] : n \in 1..MaxLevel}

NoInvocation ==
  /\ level \in InitialLevels
  /\ actors = [r \in 1..Len(level) |-> InitialPose(r)]
  /\ level0 = level
  /\ log = <<>>
  /\ pc = "idle"
  /\ args = NoArgs
  /\ before_actors = <<>>
  /\ result = NoRef
  /\ new_actor_path = NoRef
  /\ variant = 0
  /\ actor_path = NoRef
  /\ current = <<>>
  /\ modified = FALSE
  /\ results = <<>>
  /\ ret = NoRef
  /\ response = NoResponse
  /\ family = NoFamily
  /\ me = 1

Init ==
  /\ NoInvocation
  /\ parked = NoTask
  /\ probe = NoProbe

\* ----------------------------------------- get_all_scene_actors (tool)
GetAllSceneActors ==
  /\ pc = "idle"
  /\ \E o \in GetAllLevelActorsOutcomes :
       LET got == get_all_level_actors(o.resp) IN
       /\ log' = Record(ListCall(o.resp))
       /\ level' = o.level
       /\ actors' = o.actors
       /\ response' = IF got.raised
                      THEN [kind |-> "text", text |-> "Error getting scene actors"]
                      ELSE [kind |-> "json", actors |-> got.value,
                            count |-> Len(got.value)]
  /\ args' = [op |-> "get_all_scene_actors"]
  /\ pc' = "list_done"
  /\ UNCHANGED <<fixed, dup_locals, actor_path, mod_locals, ret>>

\* ---------------------------------------------------- duplicate_snowman
DupStart ==
  /\ pc = "idle"
  /\ \E src \in Range(level), p \in 0..MaxPose, name \in DupNames :
       args' = [op |-> "duplicate_snowman", snowman_actor_path |-> src,
                location |-> PoseOf(p).location, rotation |-> PoseOf(p).rotation,
                scale |-> PoseOf(p).scale, name |-> name]
  /\ pc' = "dup_before"
  /\ UNCHANGED <<engine, fixed, log, dup_locals, actor_path, mod_locals, ret, response>>

\* before_actors = await get_all_level_actors()
DupBefore ==
  /\ pc = "dup_before"
  /\ \E o \in GetAllLevelActorsOutcomes :
       LET got == get_all_level_actors(o.resp) IN
       /\ log' = Record(ListCall(o.resp))
       /\ level' = o.level
       /\ actors' = o.actors
       /\ IF got.raised
          THEN /\ pc' = "dup_done"
               /\ UNCHANGED <<before_actors, variant>>
          ELSE /\ before_actors' = got.value
               /\ variant' = 1
               /\ pc' = "dup_call"
  /\ ret' = NoRef
  /\ UNCHANGED <<fixed, args, result, new_actor_path, actor_path, mod_locals, response>>

\* requests.put(UE_URL, json=duplicate_payload); response.raise_for_status()
DupCall ==
  /\ pc = "dup_call"
  /\ \E o \in DuplicateOutcomes(args.location, args.scale) :
       /\ log' = Record(Call("Duplicate", args.snowman_actor_path,
                                  duplicate_payload(variant, args.location, args.scale),
                                  o.resp))
       /\ level' = o.level
       /\ actors' = o.actors
       /\ IF Raises(o.resp)
          THEN /\ pc' = "dup_done"
               /\ ret' = NoRef
               /\ UNCHANGED result
          ELSE /\ pc' = "dup_settle"
               /\ result' = IF ReturnValueRead(variant)
                            THEN ReturnValueOr(o.resp, NoRef)
                            ELSE result
               /\ UNCHANGED ret
  /\ UNCHANGED <<fixed, args, before_actors, new_actor_path, variant, actor_path,
                 mod_locals, response>>

\* await asyncio.sleep(0.5)
DupSettle ==
  /\ pc = "dup_settle"
  /\ pc' = "dup_resolve"
  /\ UNCHANGED <<engine, fixed, log, args, dup_locals, actor_path, mod_locals, ret,
                 response>>

\* new_actor_path = result.get("ReturnValue"), taken when it is truthy
DupResolveReturned ==
  /\ pc = "dup_resolve"
  /\ variant = 1
  /\ result # NoRef
  /\ new_actor_path' = result
  /\ pc' = "dup_set_location"
  /\ UNCHANGED <<engine, fixed, log, args, before_actors, result, variant,
                 actor_path, mod_locals, ret, response>>

\* after_actors = await get_all_level_actors(); the diff; the next variant
DupResolveByDiff ==
  /\ pc = "dup_resolve"
  /\ ~(variant = 1 /\ result # NoRef)
  /\ \E o \in GetAllLevelActorsOutcomes :
       LET got == get_all_level_actors(o.resp)
           new == new_actors(got.value, before_actors)
           nxt == NextAfterNoNewActor(variant)
       IN
       /\ log' = Record(ListCall(o.resp))
       /\ level' = o.level
       /\ actors' = o.actors
       /\ IF got.raised
          THEN /\ pc' = "dup_done"
               /\ ret' = NoRef
               /\ UNCHANGED <<new_actor_path, variant>>
          ELSE IF new # <<>>
          THEN /\ new_actor_path' = PickNewActor(new)
               /\ pc' = "dup_set_location"
               /\ UNCHANGED <<variant, ret>>
          ELSE /\ pc' = nxt.pc
               /\ variant' = nxt.variant
               /\ ret' = NoRef
               /\ UNCHANGED new_actor_path
  /\ UNCHANGED <<fixed, args, before_actors, result, actor_path, mod_locals, response>>

\* One corrective call on the resolved reference, inside the function's try.
DupSetStep(here, fn, field, params, value, next) ==
  /\ pc = here
  /\ \E o \in SetOutcomes(new_actor_path, field, value) :
       /\ log' = Record(Call(fn, new_actor_path, params, o.resp))
       /\ level' = o.level
       /\ actors' = o.actors
       /\ IF Raises(o.resp)
          THEN /\ pc' = "dup_done"
               /\ ret' = NoRef
          ELSE /\ pc' = next
               /\ UNCHANGED ret
  /\ UNCHANGED <<fixed, args, dup_locals, actor_path, mod_locals, response>>

DupSetLocation ==
  DupSetStep("dup_set_location", "SetActorLocation", "location",
             [NewLocation |-> args.location], args.location, "dup_set_rotation")

DupSetRotation ==
  DupSetStep("dup_set_rotation", "SetActorRotation", "rotation",
             [NewRotation |-> args.rotation], args.rotation, "dup_set_scale")

DupSetScale ==
  DupSetStep("dup_set_scale", "SetActorScale3D", "scale",
             [NewScale3D |-> args.scale], args.scale,
             IF Truthy(args.name) THEN "dup_set_label" ELSE "dup_return")

DupSetLabel ==
  DupSetStep("dup_set_label", "SetActorLabel", "label",
             [NewActorLabel |-> args.name], args.name, "dup_return")

\* return new_actor_path
DupReturn ==
  /\ pc = "dup_return"
  /\ ret' = new_actor_path
  /\ pc' = "dup_done"
  /\ UNCHANGED <<engine, fixed, log, args, dup_locals, actor_path, mod_locals,
                 response>>

\* ------------------------------------------------ spawn_blueprint_actor
SnowmanBlueprint == "/Game/Snowman_BP.Snowman_BP_C"

\* SpawnActorFromClass: the engine creates the actor at the given location
\* and rotation (with or without returning it), does nothing, or fails.
SpawnOutcomes(location, rotation) ==
  {EngineCreate(OkWith(NewRef), location, rotation, UnitScale),
   EngineCreate(OkEmpty(NoRef), location, rotation, UnitScale),
   EngineSame(OkEmpty(NoRef))}
    \cup {EngineSame(f) : f \in Failures(NoRef)}

spawn_payload(blueprint_path, location, rotation) ==
  [ActorClass |-> blueprint_path,
   Location |-> [X |-> location[1], Y |-> location[2], Z |-> location[3]],
   Rotation |-> [Pitch |-> rotation[1], Yaw |-> rotation[2], Roll |-> rotation[3]]]

\* Where spawn_blueprint_actor goes after the scale step.
SpawnAfterScale(name) ==
  IF Truthy(name) THEN "spawn_set_label" ELSE "spawn_return"

\* The check of the returned actor path is missing.
MutSpawnNoPathCheck(path, scale, name) ==
  IF scale # UnitScale THEN "spawn_set_scale" ELSE SpawnAfterScale(name)

\* Where spawn_blueprint_actor goes once the spawn call has answered.
SpawnAfterCreate(path, scale, name) ==
  IF path = NoRef THEN "spawn_done"
  ELSE IF scale # UnitScale THEN "spawn_set_scale"
  ELSE SpawnAfterScale(name)

SpawnStart ==
  /\ pc = "idle"
  /\ \E p \in 0..MaxPose, name \in Names :
       args' = [op |-> "spawn_actor", blueprint_path |-> SnowmanBlueprint,
                location |-> PoseOf(p).location, rotation |-> PoseOf(p).rotation,
                scale |-> PoseOf(p).scale, name |-> name]
  /\ pc' = "spawn_create"
  /\ UNCHANGED <<engine, fixed, log, dup_locals, actor_path, mod_locals, ret, response>>

\* requests.put(UE_URL, json=spawn_payload); actor_path = result.get("ReturnValue")
SpawnCreate ==
  /\ pc = "spawn_create"
  /\ \E o \in SpawnOutcomes(args.location, args.rotation) :
       /\ log' = Record(Call("SpawnActorFromClass", LevelLibraryPath,
                                  spawn_payload(args.blueprint_path, args.location,
                                                args.rotation),
                                  o.resp))
       /\ level' = o.level
       /\ actors' = o.actors
       /\ IF Raises(o.resp)
          THEN /\ pc' = "spawn_done"
               /\ UNCHANGED actor_path
          ELSE /\ actor_path' = ReturnValueOr(o.resp, NoRef)
               /\ pc' = SpawnAfterCreate(actor_path', args.scale, args.name)
  /\ ret' = NoRef
  /\ UNCHANGED <<fixed, args, dup_locals, mod_locals, response>>

\* One follow-up call on the new actor, inside the function's try.
SpawnSetStep(here, fn, field, params, value, next) ==
  /\ pc = here
  /\ \E o \in SetOutcomes(actor_path, field, value) :
       /\ log' = Record(Call(fn, actor_path, params, o.resp))
       /\ level' = o.level
       /\ actors' = o.actors
       /\ pc' = IF Raises(o.resp) THEN "spawn_done" ELSE next
  /\ ret' = NoRef
  /\ UNCHANGED <<fixed, args, dup_locals, actor_path, mod_locals, response>>

SpawnSetScale ==
  SpawnSetStep("spawn_set_scale", "SetActorScale3D", "scale",
               [NewScale3D |-> args.scale], args.scale, SpawnAfterScale(args.name))

SpawnSetLabel ==
  SpawnSetStep("spawn_set_label", "SetActorLabel", "label",
               [NewActorLabel |-> args.name], args.name, "spawn_return")

\* return actor_path
SpawnReturn ==
  /\ pc = "spawn_return"
  /\ ret' = actor_path
  /\ pc' = "spawn_done"
  /\ UNCHANGED <<engine, fixed, log, args, dup_locals, actor_path, mod_locals,
                 response>>

\* --------------------------------------------------- spawn_actor (tool)
spawn_actor_response(path) ==
  IF path # NoRef
  THEN [kind |-> "json", success |-> TRUE, actor_path |-> path]
  ELSE [kind |-> "json", success |-> FALSE, error |-> "Failed to spawn actor"]

SpawnActorRespond ==
  /\ pc = "spawn_done"
  /\ args.op = "spawn_actor"
  /\ response' = spawn_actor_response(ret)
  /\ pc' = "tool_done"
  /\ UNCHANGED <<engine, fixed, log, args, dup_locals, actor_path, mod_locals, ret>>

\* -------------------------------------------------- modify_actor (tool)
\* The optional fields of a request; a field left out is None.  is_snowman
\* says whether "Snowman_BP" occurs in the actor path.
Fields == {"x", "y", "z", "pitch", "yaw", "roll", "scale_x", "scale_y", "scale_z",
           "name"}

NumericFields == Fields \ {"name"}

\* The value a request gives a numeric field it specifies.
RequestedValue(f) ==
  CASE f = "x" -> 10 [] f = "y" -> 20 [] f = "z" -> 30
    [] f = "pitch" -> 15 [] f = "yaw" -> 25 [] f = "roll" -> 35
    [] f = "scale_x" -> 12 [] f = "scale_y" -> 14 [] OTHER -> 16

\* The requests that specify at most MaxFields fields.
ModifyRequests ==
  {S \in SUBSET Fields : Cardinality(S) <= MaxFields}

GroupFields(group) ==
  CASE group = "location" -> <<"x", "y", "z">>
    [] group = "rotation" -> <<"pitch", "yaw", "roll">>
    [] OTHER -> <<"scale_x", "scale_y", "scale_z">>

\* The test looks at every numeric field, not at the group's own three.
MutAnySpecifiedAnyGroup(a, group) == \E f \in NumericFields : a[f] # NoValue

\* any(param is not None for param in [...])
AnySpecified(a, group) == \E i \in 1..3 : a[GroupFields(group)[i]] # NoValue

\* The default of response.json().get("ReturnValue", {...}) and of
\* current.get(axis, default).
GroupDefault(group) ==
  CASE group = "location" -> <<0, 0, 0>>
    [] group = "rotation" -> <<0, 0, 0>>
    [] OTHER -> UnitScale

\* new_x = x if x is not None else current_loc.get("X", 0), per axis
Overlay(a, group, cur) ==
  [i \in 1..3 |-> IF a[GroupFields(group)[i]] # NoValue
                  THEN a[GroupFields(group)[i]]
                  ELSE cur[i]]

\* GetActorLocation / GetActorRotation / GetActorScale3D
GetOutcomes(obj, field) ==
  {EngineSame(OkWith(actors[obj][field])), EngineSame(OkEmpty(<<>>))}
    \cup {EngineSame(f) : f \in Failures(<<>>)}

\* The entry a group that was applied gets in results; a snowman's scale
\* entry also holds its dimensions (scale in tenths, so tenths of a cm).
ResultEntry(group, new, snowman) ==
  IF group = "scale" /\ snowman
  THEN [x |-> new[1], y |-> new[2], z |-> new[3],
        actual_dimensions_cm |-> [width |-> SNOWMAN_WIDTH * new[1],
                                  length |-> SNOWMAN_LENGTH * new[2]]]
  ELSE IF group = "rotation"
  THEN [pitch |-> new[1], yaw |-> new[2], roll |-> new[3]]
  ELSE [x |-> new[1], y |-> new[2], z |-> new[3]]

\* results[key] = value
Put(r, key, value) == [k \in (DOMAIN r) \cup {key} |-> IF k = key THEN value ELSE r[k]]

ModStart ==
  /\ pc = "idle"
  /\ \E target \in Range(level), S \in ModifyRequests, name \in Names \ {NoName},
        snowman \in BOOLEAN :
       args' = [f \in NumericFields |-> IF f \in S THEN RequestedValue(f) ELSE NoValue]
               @@ [op |-> "modify_actor", actor_path |-> target,
                   name |-> IF "name" \in S THEN name ELSE NoName,
                   is_snowman |-> snowman]
  /\ pc' = "mod_location"
  /\ UNCHANGED <<engine, fixed, log, dup_locals, actor_path, mod_locals, ret, response>>

\* A group none of whose components is specified is passed over.
ModSkipStep(here, group, next) ==
  /\ pc = here
  /\ ~AnySpecified(args, group)
  /\ pc' = next
  /\ UNCHANGED <<engine, fixed, log, args, dup_locals, actor_path, mod_locals, ret,
                 response>>

\* The get call of a group; an exception records the group's error entry.
ModGetStep(here, group, fn, errkey, setpc, next) ==
  /\ pc = here
  /\ AnySpecified(args, group)
  /\ \E o \in GetOutcomes(args.actor_path, group) :
       /\ log' = Record(Call(fn, args.actor_path, NoParams, o.resp))
       /\ level' = o.level
       /\ actors' = o.actors
       /\ IF Raises(o.resp)
          THEN /\ results' = Put(results, errkey, o.resp.status)
               /\ pc' = next
               /\ UNCHANGED current
          ELSE /\ current' = ReturnValueOr(o.resp, GroupDefault(group))
               /\ pc' = setpc
               /\ UNCHANGED results
  /\ UNCHANGED <<fixed, args, dup_locals, actor_path, modified, ret, response>>

\* The handlers around the set call do not catch the transport's exception:
\* it leaves the tool.
MutModSetStepUncaught(here, group, fn, pkey, okkey, errkey, next) ==
  /\ pc = here
  /\ LET new == Overlay(args, group, current) IN
     \E o \in SetOutcomes(args.actor_path, group, new) :
       /\ log' = Record(Call(fn, args.actor_path, pkey :> new, o.resp))
       /\ level' = o.level
       /\ actors' = o.actors
       /\ IF Raises(o.resp)
          THEN /\ pc' = "raised"
               /\ UNCHANGED <<results, modified>>
          ELSE /\ results' = Put(results, okkey,
                                 ResultEntry(group, new, args.is_snowman))
               /\ modified' = TRUE
               /\ pc' = next
  /\ UNCHANGED <<fixed, args, dup_locals, actor_path, current, ret, response>>

\* The set call of a group, carrying the overlay of the request on current.
ModSetStep(here, group, fn, pkey, okkey, errkey, next) ==
  /\ pc = here
  /\ LET new == Overlay(args, group, current) IN
     \E o \in SetOutcomes(args.actor_path, group, new) :
       /\ log' = Record(Call(fn, args.actor_path, pkey :> new, o.resp))
       /\ level' = o.level
       /\ actors' = o.actors
       /\ IF Raises(o.resp)
          THEN /\ results' = Put(results, errkey, o.resp.status)
               /\ UNCHANGED modified
          ELSE /\ results' = Put(results, okkey,
                                 ResultEntry(group, new, args.is_snowman))
               /\ modified' = TRUE
  /\ pc' = next
  /\ UNCHANGED <<fixed, args, dup_locals, actor_path, current, ret, response>>

ModSkipLocation == ModSkipStep("mod_location", "location", "mod_rotation")

\* A failed get call of the location ends the whole request.
MutModGetLocationAborts ==
  ModGetStep("mod_location", "location", "GetActorLocation", "location_error",
             "mod_set_location", "mod_respond")

ModGetLocation ==
  ModGetStep("mod_location", "location", "GetActorLocation", "location_error",
             "mod_set_location", "mod_rotation")

ModSetLocation ==
  ModSetStep("mod_set_location", "location", "SetActorLocation", "NewLocation",
             "location_cm", "location_error", "mod_rotation")

ModSkipRotation == ModSkipStep("mod_rotation", "rotation", "mod_scale")

ModGetRotation ==
  ModGetStep("mod_rotation", "rotation", "GetActorRotation", "rotation_error",
             "mod_set_rotation", "mod_scale")

ModSetRotation ==
  ModSetStep("mod_set_rotation", "rotation", "SetActorRotation", "NewRotation",
             "rotation", "rotation_error", "mod_scale")

ModSkipScale == ModSkipStep("mod_scale", "scale", "mod_label")

ModGetScale ==
  ModGetStep("mod_scale", "scale", "GetActorScale3D", "scale_error",
             "mod_set_scale", "mod_label")

ModSetScale ==
  ModSetStep("mod_set_scale", "scale", "SetActorScale3D", "NewScale3D",
             "scale", "scale_error", "mod_label")

\* if name is not None: not taken
ModSkipLabel ==
  /\ pc = "mod_label"
  /\ args.name = NoName
  /\ pc' = "mod_respond"
  /\ UNCHANGED <<engine, fixed, log, args, dup_locals, actor_path, mod_locals, ret,
                 response>>

ModSetLabel ==
  /\ pc = "mod_label"
  /\ args.name # NoName
  /\ \E o \in SetOutcomes(args.actor_path, "label", args.name) :
       /\ log' = Record(Call("SetActorLabel", args.actor_path,
                                  [NewActorLabel |-> args.name], o.resp))
       /\ level' = o.level
       /\ actors' = o.actors
       /\ IF Raises(o.resp)
          THEN /\ results' = Put(results, "name_error", o.resp.status)
               /\ UNCHANGED modified
          ELSE /\ results' = Put(results, "name", args.name)
               /\ modified' = TRUE
  /\ pc' = "mod_respond"
  /\ UNCHANGED <<fixed, args, dup_locals, actor_path, current, ret, response>>

\* The modified flag is not consulted: the response always reports success.
MutRespondAlwaysSuccess(mod, path, res) ==
  [kind |-> "json", success |-> TRUE, actor_path |-> path, modified |-> res]

modify_actor_response(mod, path, res) ==
  IF mod
  THEN [kind |-> "json", success |-> TRUE, actor_path |-> path, modified |-> res]
  ELSE [kind |-> "json", success |-> FALSE, actor_path |-> path,
        error |-> "No modifications were specified", results |-> res]

ModRespond ==
  /\ pc = "mod_respond"
  /\ response' = modify_actor_response(modified, args.actor_path, results)
  /\ pc' = "tool_done"
  /\ UNCHANGED <<engine, fixed, log, args, dup_locals, actor_path, mod_locals, ret>>

\* ------------------------------------------ spawn_snowman_family (tool)
\* The values random.uniform(0.8, 1.2) is sampled at, in tenths.
RandomFactors == {8, 10, 12}

\* The random factor is applied whatever random_placement says.
MutOffsetAlwaysRandom(spread, random_placement, u) == spread * u

\* offset_factor, in tenths; u is the value the random generator gives.
offset_factor(spread, random_placement, u) ==
  IF random_placement THEN spread * u ELSE spread * 10

\* spacing_x = SNOWMAN_WIDTH * 1.5
spacing_x == (SNOWMAN_WIDTH * 15) \div 10

\* spacing_y = SNOWMAN_LENGTH * 1.5
spacing_y == (SNOWMAN_LENGTH * 15) \div 10

\* The three positions, for a base position and an offset factor in tenths.
positions(base, offset) ==
  <<base,
    <<base[1] - (spacing_x * offset) \div 10,
      base[2] + (spacing_y * 6 * offset) \div 100,
      base[3]>>,
    <<base[1] + (spacing_x * 12 * offset) \div 100,
      base[2] - (spacing_y * 4 * offset) \div 100,
      base[3]>>>>

scales == <<<<12, 12, 12>>, <<9, 9, 9>>, <<14, 14, 14>>>>

rotations == <<<<0, 0, 0>>, <<0, 135, 0>>, <<0, -45, 0>>>>

names == <<"Snowman_Center", "Snowman_Left", "Snowman_Right">>

\* The entry of spawned_actors for the k-th snowman (sizes in tenths of a cm).
snowman_entry(path, k, pos) ==
  [actor_path |-> path,
   location_cm |-> [x |-> pos[k][1], y |-> pos[k][2], z |-> pos[k][3]],
   size_cm |-> [width |-> SNOWMAN_WIDTH * scales[k][1],
                length |-> SNOWMAN_LENGTH * scales[k][2]],
   rotation |-> [pitch |-> rotations[k][1], yaw |-> rotations[k][2],
                 roll |-> rotations[k][3]],
   scale |-> [x |-> scales[k][1], y |-> scales[k][2], z |-> scales[k][3]],
   name |-> names[k]]

\* One call of a helper by the family: which helper, on which source, where;
\* returned is what the helper handed back, filled in when it returns.
HelperCall(helper, source, k, pos) ==
  [helper |-> helper, source |-> source, location |-> pos[k],
   rotation |-> rotations[k], scale |-> scales[k], name |-> names[k],
   returned |-> NoRef]

\* The helper called last has returned r.
Returned(calls, r) == [calls EXCEPT ![Len(calls)].returned = r]

InFamily == args.op = "spawn_snowman_family"

\* The tool is called; it computes the positions and calls
\* spawn_blueprint_actor for the first snowman.
FamilyStart ==
  /\ pc = "idle"
  /\ \E p \in 0..MaxPose, spread \in 1..(MaxPose + 1), random_placement \in BOOLEAN,
        u \in RandomFactors :
       LET base == PoseOf(p).location
           pos == positions(base, offset_factor(spread, random_placement, u))
       IN
       /\ family' = [active |-> TRUE, base |-> base, spread |-> spread,
                     random_placement |-> random_placement, positions |-> pos,
                     i |-> 0, first_snowman |-> NoRef, spawned_actors |-> <<>>,
                     calls |-> <<HelperCall("spawn_blueprint_actor", NoRef, 1, pos)>>]
       /\ args' = [op |-> "spawn_snowman_family", blueprint_path |-> SnowmanBlueprint,
                   location |-> pos[1], rotation |-> rotations[1],
                   scale |-> scales[1], name |-> names[1]]
  /\ pc' = "spawn_create"
  /\ UNCHANGED <<engine, level0, log, dup_locals, actor_path, mod_locals, ret, response,
                 me, parked, probe>>

family_failure_response ==
  [kind |-> "json", success |-> FALSE,
   error |-> "Failed to spawn first snowman, cannot continue", snowmen |-> <<>>]

\* if not first_snowman: return the failure; else record the first snowman
FamilyAfterSpawn ==
  /\ pc = "spawn_done"
  /\ InFamily
  /\ IF ret = NoRef
     THEN /\ response' = family_failure_response
          /\ pc' = "tool_done"
          /\ UNCHANGED family
     ELSE /\ family' = [family EXCEPT
                          !.first_snowman = ret,
                          !.calls = Returned(@, ret),
                          !.spawned_actors = <<snowman_entry(ret, 1, family.positions)>>]
          /\ pc' = "family_settle"
          /\ UNCHANGED response
  /\ UNCHANGED <<engine, level0, log, args, dup_locals, actor_path, mod_locals, ret,
                 me, parked, probe>>

\* await asyncio.sleep(0.5), then the loop over range(1, 3) starts
FamilySettle ==
  /\ pc = "family_settle"
  /\ family' = [family EXCEPT !.i = 1]
  /\ pc' = "family_loop"
  /\ UNCHANGED <<engine, level0, log, args, dup_locals, actor_path, mod_locals, ret,
                 response, me, parked, probe>>

\* duplicated_snowman = await duplicate_snowman(first_snowman, positions[i], ...)
FamilyDuplicate ==
  /\ pc = "family_loop"
  /\ family.i <= 2
  /\ args' = [op |-> "spawn_snowman_family",
              snowman_actor_path |-> family.first_snowman,
              location |-> family.positions[family.i + 1],
              rotation |-> rotations[family.i + 1],
              scale |-> scales[family.i + 1], name |-> names[family.i + 1]]
  /\ family' = [family EXCEPT
                  !.calls = Append(@, HelperCall("duplicate_snowman",
                                                 family.first_snowman, family.i + 1,
                                                 family.positions))]
  /\ before_actors' = <<>>
  /\ result' = NoRef
  /\ new_actor_path' = NoRef
  /\ variant' = 0
  /\ ret' = NoRef
  /\ pc' = "dup_before"
  /\ UNCHANGED <<engine, level0, log, actor_path, mod_locals, response, me, parked, probe>>

\* if duplicated_snowman: spawned_actors.append(...); else a warning
FamilyAfterDuplicate ==
  /\ pc = "dup_done"
  /\ InFamily
  /\ family' = [family EXCEPT
                  !.calls = Returned(@, ret),
                  !.spawned_actors =
                     IF ret # NoRef
                     THEN Append(@, snowman_entry(ret, family.i + 1, family.positions))
                     ELSE @]
  /\ pc' = "family_pause"
  /\ UNCHANGED <<engine, level0, log, args, dup_locals, actor_path, mod_locals, ret,
                 response, me, parked, probe>>

\* await asyncio.sleep(0.5) at the end of the loop body
FamilyPause ==
  /\ pc = "family_pause"
  /\ family' = [family EXCEPT !.i = @ + 1]
  /\ pc' = "family_loop"
  /\ UNCHANGED <<engine, level0, log, args, dup_locals, actor_path, mod_locals, ret,
                 response, me, parked, probe>>

\* The count is the number of snowmen asked for, not the number made.
MutFamilyResponseCountsThree(spawned_actors) ==
  [kind |-> "json", success |-> TRUE,
   standard_snowman_dimensions_cm |-> [width |-> SNOWMAN_WIDTH,
                                       length |-> SNOWMAN_LENGTH],
   snowmen_count |-> 3, snowmen |-> spawned_actors]

family_response(spawned_actors) ==
  [kind |-> "json", success |-> TRUE,
   standard_snowman_dimensions_cm |-> [width |-> SNOWMAN_WIDTH,
                                       length |-> SNOWMAN_LENGTH],
   snowmen_count |-> Len(spawned_actors), snowmen |-> spawned_actors]

FamilyRespond ==
  /\ pc = "family_loop"
  /\ family.i > 2
  /\ response' = family_response(family.spawned_actors)
  /\ pc' = "tool_done"
  /\ UNCHANGED <<engine, level0, log, args, dup_locals, actor_path, mod_locals, ret,
                 family, me, parked, probe>>

\* ------------------------------------- two interleaved duplicate_snowman
\* What an invocation of duplicate_snowman keeps across a suspension.
Running ==
  [pc |-> pc, args |-> args, before_actors |-> before_actors, result |-> result,
   new_actor_path |-> new_actor_path, variant |-> variant, ret |-> ret, me |-> me]

\* The second invocation, not yet started.
SecondInvocation ==
  [pc |-> "idle", args |-> NoArgs, before_actors |-> <<>>, result |-> NoRef,
   new_actor_path |-> NoRef, variant |-> 0, ret |-> NoRef, me |-> 2]

InitRace ==
  /\ NoInvocation
  /\ parked = SecondInvocation
  /\ probe = NoProbe

\* An invocation starts, called as the family calls it for its second or
\* third snowman, on an actor of the level.
RaceStart ==
  /\ pc = "idle"
  /\ parked # NoTask
  /\ \E src \in Range(level0) :
       args' = [op |-> "duplicate_snowman", snowman_actor_path |-> src,
                location |-> PoseOf(me).location, rotation |-> rotations[me + 1],
                scale |-> scales[me + 1], name |-> names[me + 1]]
  /\ pc' = "dup_before"
  /\ UNCHANGED <<engine, fixed, log, dup_locals, actor_path, mod_locals, ret, response>>

\* The running invocation is at an await asyncio.sleep(0.5), or has
\* returned, and the event loop runs the other invocation.
RaceYield ==
  /\ parked # NoTask
  /\ pc \in {"dup_settle", "dup_done"}
  /\ parked.pc # "dup_done"
  /\ parked' = Running
  /\ pc' = parked.pc
  /\ args' = parked.args
  /\ before_actors' = parked.before_actors
  /\ result' = parked.result
  /\ new_actor_path' = parked.new_actor_path
  /\ variant' = parked.variant
  /\ ret' = parked.ret
  /\ me' = parked.me
  /\ UNCHANGED <<engine, level0, log, actor_path, mod_locals, response, family, probe>>

NextRace ==
  \/ RaceStart
  \/ DupBefore
  \/ DupCall
  \/ DupSettle
  \/ DupResolveReturned
  \/ DupResolveByDiff
  \/ DupSetLocation
  \/ DupSetRotation
  \/ DupSetScale
  \/ DupSetLabel
  \/ DupReturn
  \/ RaceYield

SpecRace == InitRace /\ [][NextRace]_vars

\* ------------------------------------------------- the snapshot diff alone
\* The listings of at most MaxListing references out of 1..MaxListing.
Listings == UNION {[1..n -> 1..MaxListing] : n \in 0..MaxListing}

InitDiff ==
  /\ NoInvocation
  /\ parked = NoTask
  /\ probe \in {[applied |-> FALSE, before |-> b, after |-> a, new |-> <<>>] :
                  b \in Listings, a \in Listings}

\* new_actors = [actor for actor in after_actors if actor not in before_actors]
ApplyDiff ==
  /\ ~probe.applied
  /\ probe' = [probe EXCEPT !.applied = TRUE,
                            !.new = new_actors(probe.after, probe.before)]
  /\ UNCHANGED <<engine, level0, log, pc, args, dup_locals, actor_path, mod_locals,
                 ret, response, family, me, parked>>

NextDiff == ApplyDiff

SpecDiff == InitDiff /\ [][NextDiff]_vars

Next ==
  \/ GetAllSceneActors
  \/ DupStart
  \/ DupBefore
  \/ DupCall
  \/ DupSettle
  \/ DupResolveReturned
  \/ DupResolveByDiff
  \/ DupSetLocation
  \/ DupSetRotation
  \/ DupSetScale
  \/ DupSetLabel
  \/ DupReturn
  \/ SpawnStart
  \/ SpawnCreate
  \/ SpawnSetScale
  \/ SpawnSetLabel
  \/ SpawnReturn
  \/ SpawnActorRespond
  \/ ModStart
  \/ ModSkipLocation
  \/ ModGetLocation
  \/ ModSetLocation
  \/ ModSkipRotation
  \/ ModGetRotation
  \/ ModSetRotation
  \/ ModSkipScale
  \/ ModGetScale
  \/ ModSetScale
  \/ ModSkipLabel
  \/ ModSetLabel
  \/ ModRespond
  \/ FamilyStart
  \/ FamilyAfterSpawn
  \/ FamilySettle
  \/ FamilyDuplicate
  \/ FamilyAfterDuplicate
  \/ FamilyPause
  \/ FamilyRespond

Spec == Init /\ [][Next]_vars

\* ------------------------------------------------------------- claims
\* What the recorded calls show, read off the log alone.
IsDup == args.op = "duplicate_snowman"

DupIdx == {i \in 1..Len(log) : log[i].fn = "Duplicate"}

SetFns == {"SetActorLocation", "SetActorRotation", "SetActorScale3D", "SetActorLabel"}

SetIdx == {i \in 1..Len(log) : log[i].fn \in SetFns}

\* The listing a GetAllLevelActors response carries; none on a failure.
ListingOf(resp) == IF resp.status = "OK" /\ resp.has THEN resp.rv ELSE <<>>

\* The call succeeded and carried no reference.
NoRefReturned(resp) == resp.status = "OK" /\ (~resp.has \/ resp.rv = NoRef)

\* The call succeeded and carried a reference.
RefReturned(resp) == resp.status = "OK" /\ resp.has /\ resp.rv # NoRef

\* Positions of the after-listing whose actor the before-snapshot lacks.
AbsentIdx(after, before) == {i \in 1..Len(after) : after[i] \notin Range(before)}

MaxOf(S) == CHOOSE m \in S : \A x \in S : x <= m

\* The Duplicate call at log position i was followed by an after-snapshot.
HasAfter(i) == i + 1 <= Len(log) /\ log[i + 1].fn = "GetAllLevelActors"

AfterOf(i) == ListingOf(log[i + 1].resp)

BeforeOf == ListingOf(log[1].resp)

\* The last call was the after-snapshot of an attempt whose Duplicate call
\* returned no reference, and the listing holds an actor absent before.
JustDiffed ==
  /\ IsDup
  /\ Len(log) >= 3
  /\ log[Len(log)].fn = "GetAllLevelActors"
  /\ log[Len(log) - 1].fn = "Duplicate"
  /\ NoRefReturned(log[Len(log) - 1].resp)
  /\ AbsentIdx(AfterOf(Len(log) - 1), BeforeOf) # {}

\* C1: when the Duplicate call returned no reference and the after-snapshot
\* holds an actor that the before-snapshot lacks, the resolved reference is
\* the last actor, in the after-listing's order, absent from the
\* before-snapshot.
C1_LastNewActorResolved ==
  JustDiffed =>
    LET after == AfterOf(Len(log) - 1) IN
    /\ pc = "dup_set_location"
    /\ new_actor_path = after[MaxOf(AbsentIdx(after, BeforeOf))]

\* The scenario before = [A], after = [A, B], resolved B; and a diff with
\* two new actors, where first and last differ.
C1_Witness ==
  /\ JustDiffed
  /\ Len(AfterOf(Len(log) - 1)) = 3
  /\ Cardinality(AbsentIdx(AfterOf(Len(log) - 1), BeforeOf)) = 2
  /\ new_actor_path = 3

\* Every Duplicate call so far returned no reference and was followed by
\* an after-snapshot with no actor outside the before-snapshot, three times.
AllThreeUndetected ==
  /\ IsDup
  /\ Cardinality(DupIdx) >= 3
  /\ \A i \in DupIdx :
       /\ NoRefReturned(log[i].resp)
       /\ HasAfter(i)
       /\ AbsentIdx(AfterOf(i), BeforeOf) = {}

\* C2: if all three payload variants yield no reference and no new actor,
\* duplicate ends in failure after exactly three Duplicate calls and issues
\* no set-location, set-rotation, set-scale or set-label call.
C2_UndetectableFails ==
  AllThreeUndetected =>
    /\ pc = "dup_done"
    /\ ret = NoRef
    /\ Cardinality(DupIdx) = 3
    /\ SetIdx = {}

C2_Witness == AllThreeUndetected /\ pc = "dup_done" /\ Len(log) = 7

\* The Duplicate calls issued so far, in order.
DupCalls == SelectSeq(log, LAMBDA c : c.fn = "Duplicate")

FormOrder == <<"typed", "flat", "array">>

\* One Duplicate call per attempt, in the order A, B, C, three at most.
DupCallsInOrder ==
  IsDup =>
    /\ Len(DupCalls) <= 3
    /\ \A j \in 1..Len(DupCalls) : DupCalls[j].params.NewTransform.form = FormOrder[j]
    /\ pc \in {"dup_before"} => Len(DupCalls) = 0
    /\ pc = "dup_call" => Len(DupCalls) = variant - 1
    /\ pc \notin {"dup_before", "dup_call", "dup_done"} => Len(DupCalls) = variant

\* C3: each payload variant attempt that executes issues exactly one
\* Duplicate call, the variants are tried in the order A, B, C, at most
\* three Duplicate calls are issued, and none once a reference is resolved.
C3_OneDuplicatePerVariant ==
  /\ []DupCallsInOrder
  /\ [][new_actor_path # NoRef => Len(DupCalls') = Len(DupCalls)]_vars

\* A reference resolved at the third attempt, after three Duplicate calls.
C3_Witness == IsDup /\ pc = "dup_return" /\ Len(DupCalls) = 3

\* The attempt of the Duplicate call at log position i is over.
AttemptOver(i) ==
  \/ \E j \in DupIdx : j > i
  \/ pc \notin {"dup_settle", "dup_resolve"}

\* C4: in every attempt (variant A and the retries with B and C), a
\* non-empty reference in the Duplicate call's return value is accepted as
\* the resolved reference, whatever the snapshot diff shows.
C4_ReturnedReferenceAccepted ==
  IsDup =>
    \A i \in DupIdx :
      (RefReturned(log[i].resp) /\ AttemptOver(i)) => new_actor_path = log[i].resp.rv

\* C5: once a reference is resolved, a failure of the set-location,
\* set-rotation, set-scale or set-label call does not fail the operation:
\* duplicate still returns the resolved reference.
C5_CorrectionFailureNonFatal ==
  (IsDup /\ pc = "dup_done" /\ new_actor_path # NoRef) => ret = new_actor_path

\* C6: duplicate reports overall failure only when all three payload
\* variants were attempted and none yielded a resolvable reference; a
\* transport failure of one call does not by itself end it in failure.
C6_FailureOnlyWhenExhausted ==
  (IsDup /\ pc = "dup_done" /\ ret = NoRef) =>
    /\ Cardinality(DupIdx) = 3
    /\ new_actor_path = NoRef

IsSpawn == args.op = "spawn_actor"

SpawnOver == pc \in {"spawn_done", "tool_done"}

\* C7: once the create call has returned a reference, a failure of the
\* set-scale or set-label call does not invalidate the spawn: the operation
\* still returns the new reference and spawn_actor reports success.
C7_SpawnFollowUpNonFatal ==
  (IsSpawn /\ SpawnOver /\ actor_path # NoRef) =>
    /\ ret = actor_path
    /\ pc = "tool_done" => response.success

\* The create call was issued and failed or returned no reference.
CreateGaveNoReference ==
  /\ IsSpawn
  /\ Len(log) >= 1
  /\ log[1].fn = "SpawnActorFromClass"
  /\ ~RefReturned(log[1].resp)

\* C8: if the create call fails or returns no reference, spawn ends in
\* failure, issues no set-scale or set-label call, and spawn_actor returns
\* success=false with an error string.
C8_SpawnNoReferenceFails ==
  CreateGaveNoReference =>
    /\ SpawnOver
    /\ ret = NoRef
    /\ Len(log) = 1
    /\ pc = "tool_done" =>
         (~response.success /\ response.error = "Failed to spawn actor")

\* A create call that answered without a reference, for a request with a
\* scale and a name to set, reported as a failure.
C8_Witness ==
  /\ CreateGaveNoReference
  /\ log[1].resp.status = "OK"
  /\ args.scale # UnitScale
  /\ Truthy(args.name)
  /\ pc = "tool_done"
  /\ ~response.success

IsList == args.op = "get_all_scene_actors"

\* C9: listActors issues exactly one GetAllLevelActors call and returns the
\* listing it received, or an empty sequence on any transport failure; it
\* never raises to its caller.
C9_ListActorsTotal ==
  /\ (IsList /\ pc = "list_done") =>
       /\ Len(log) = 1
       /\ log[1].fn = "GetAllLevelActors"
       /\ response.kind = "json"
       /\ response.actors = ListingOf(log[1].resp)
  /\ (IsDup /\ pc = "dup_call" /\ variant = 1) =>
       /\ Len(log) = 1
       /\ log[1].fn = "GetAllLevelActors"
       /\ before_actors = ListingOf(log[1].resp)
  /\ (IsDup /\ Len(log) = 1) => pc # "dup_done"

\* A listing that timed out and came back empty; a listing that arrived.
C9_Witness ==
  /\ IsList
  /\ pc = "list_done"
  /\ log[1].resp.status = "Timeout"
  /\ response.actors = <<>>

IsMod == args.op = "modify_actor"

ModGroups == {"location", "rotation", "scale"}

SetFnOf(group) ==
  CASE group = "location" -> "SetActorLocation"
    [] group = "rotation" -> "SetActorRotation"
    [] OTHER -> "SetActorScale3D"

ParamOf(group) ==
  CASE group = "location" -> "NewLocation"
    [] group = "rotation" -> "NewRotation"
    [] OTHER -> "NewScale3D"

\* C10: mutate preserves unspecified axes: a group's set call carries the
\* specified components and, for every unspecified component, the actor's
\* value from before the call, so that component is unchanged afterwards.
C10_UnspecifiedAxesPreserved ==
  IsMod =>
    \A g \in ModGroups : \A a \in 1..3 :
      LET f == GroupFields(g)[a]
          was == InitialPose(args.actor_path)[g][a]
      IN
      /\ \A i \in 1..Len(log) :
           log[i].fn = SetFnOf(g) =>
             log[i].params[ParamOf(g)][a] = (IF args[f] # NoValue THEN args[f] ELSE was)
      /\ args[f] = NoValue => actors[args.actor_path][g][a] = was

GetFnOf(group) ==
  CASE group = "location" -> "GetActorLocation"
    [] group = "rotation" -> "GetActorRotation"
    [] OTHER -> "GetActorScale3D"

\* The positions of the log that hold a call of the given function.
CallsOf(fn) == {i \in 1..Len(log) : log[i].fn = fn}

\* The request specifies x and nothing else.
OnlyXSpecified ==
  /\ IsMod
  /\ args.x # NoValue
  /\ \A f \in NumericFields \ {"x"} : args[f] = NoValue
  /\ args.name = NoName

\* C11: mutate issues no remote call for a group that was not requested: a
\* group none of whose components is specified gets neither a get nor a set
\* call, and the label gets a set call only when a label is specified; a
\* request that specifies x alone ends with one get-location and one
\* set-location call carrying x, and no rotation-set or scale-set call.
C11_NoCallForUnrequestedGroup ==
  IsMod =>
    /\ \A g \in ModGroups :
         ~AnySpecified(args, g) => (CallsOf(GetFnOf(g)) = {} /\ CallsOf(SetFnOf(g)) = {})
    /\ args.name = NoName => CallsOf("SetActorLabel") = {}
    /\ (OnlyXSpecified /\ pc = "tool_done" /\ ~Raises(log[1].resp)) =>
         /\ Len(log) = 2
         /\ log[1].fn = "GetActorLocation"
         /\ log[2].fn = "SetActorLocation"
         /\ log[2].params.NewLocation[1] = args.x

\* A request for x alone, applied: the location was read and set, and the
\* response holds the location entry only.
C11_Witness ==
  /\ OnlyXSpecified
  /\ pc = "tool_done"
  /\ Len(log) = 2
  /\ log[2].fn = "SetActorLocation"
  /\ log[2].resp.status = "OK"
  /\ DOMAIN results = {"location_cm"}

OkKeyOf(group) == IF group = "location" THEN "location_cm" ELSE group

ErrKeyOf(group) ==
  CASE group = "location" -> "location_error"
    [] group = "rotation" -> "rotation_error"
    [] OTHER -> "scale_error"

\* A call of the given function was issued and failed.
FailedCallOf(fn) == \E i \in CallsOf(fn) : Raises(log[i].resp)

\* A call of the given function was issued and answered.
AnsweredCallOf(fn) == \E i \in CallsOf(fn) : ~Raises(log[i].resp)

\* C12: in mutate, the failure of one group is recorded for that group only
\* and does not keep the later requested groups from being attempted: a
\* group whose get call fails issues no set call and gets an error entry, a
\* group whose set call fails gets an error entry, a group whose set call
\* answers gets a success entry, and at the end every requested group and a
\* requested label have been attempted whatever happened to the others.
C12_GroupFailureIsLocal ==
  IsMod =>
    /\ \A g \in ModGroups :
         /\ FailedCallOf(GetFnOf(g)) =>
              /\ CallsOf(SetFnOf(g)) = {}
              /\ ErrKeyOf(g) \in DOMAIN results
              /\ OkKeyOf(g) \notin DOMAIN results
         /\ FailedCallOf(SetFnOf(g)) => ErrKeyOf(g) \in DOMAIN results
         /\ AnsweredCallOf(SetFnOf(g)) => OkKeyOf(g) \in DOMAIN results
         /\ (pc = "tool_done" /\ AnySpecified(args, g)) => CallsOf(GetFnOf(g)) # {}
         /\ (pc = "tool_done" /\ AnsweredCallOf(GetFnOf(g))) => CallsOf(SetFnOf(g)) # {}
    /\ (pc = "tool_done" /\ args.name # NoName) => CallsOf("SetActorLabel") # {}
    /\ pc = "tool_done" =>
         (IF response.success THEN response.modified ELSE response.results) = results

\* The location's get call failed and the rotation was still applied: one
\* response with an error entry for one group and a success entry for another.
C12_Witness ==
  /\ IsMod
  /\ pc = "tool_done"
  /\ FailedCallOf("GetActorLocation")
  /\ CallsOf("SetActorLocation") = {}
  /\ response.success
  /\ DOMAIN response.modified = {"location_error", "rotation"}

\* The request specifies no field at all.
NothingSpecified ==
  /\ IsMod
  /\ \A f \in NumericFields : args[f] = NoValue
  /\ args.name = NoName

\* C13: mutate with no field specified at all issues no remote call and
\* returns success=false with the error 'No modifications were specified'.
C13_EmptyRequestRejected ==
  NothingSpecified =>
    /\ log = <<>>
    /\ actors = [r \in 1..Len(level0) |-> InitialPose(r)]
    /\ pc = "tool_done" =>
         /\ ~response.success
         /\ response.error = "No modifications were specified"
         /\ response.results = <<>>

\* The empty request, answered.
C13_Witness == NothingSpecified /\ pc = "tool_done" /\ ~response.success

\* The reference is the return value of a Duplicate call of this operation.
ConfirmedByReturn(r) ==
  \E i \in DupIdx : RefReturned(log[i].resp) /\ log[i].resp.rv = r

\* The reference is in an after-snapshot of this operation and not in its
\* before-snapshot.
ConfirmedByDiff(r) ==
  \E i \in DupIdx : HasAfter(i) /\ r \in Range(AfterOf(i)) \ Range(BeforeOf)

\* C19: duplicate returns a reference only if the duplication was confirmed
\* by one of the two signals: the reference is the non-empty return value of
\* a Duplicate call of this operation or a member of (after - before) of
\* this operation; and every post-correction call is addressed to that
\* same reference.
C19_ReturnedReferenceConfirmed ==
  IsDup =>
    /\ new_actor_path # NoRef =>
         (ConfirmedByReturn(new_actor_path) \/ ConfirmedByDiff(new_actor_path))
    /\ \A i \in SetIdx : new_actor_path # NoRef /\ log[i].obj = new_actor_path
    /\ (pc = "dup_done" /\ ret # NoRef) => ret = new_actor_path

\* A reference found by the diff alone, corrected by four calls and returned.
C19_Witness ==
  /\ IsDup
  /\ pc = "dup_done"
  /\ ret # NoRef
  /\ ~ConfirmedByReturn(ret)
  /\ ConfirmedByDiff(ret)
  /\ Cardinality(SetIdx) = 4

\* C20: in single-caller use, duplicate never returns the reference of an
\* actor that was already in the level when the operation started, and in
\* particular never the source reference, whatever the snapshot calls
\* answer, a failed and therefore empty before-snapshot included.
C20_NeverReturnsExistingActor ==
  (IsDup /\ pc = "dup_done" /\ ret # NoRef) =>
    /\ ret \notin Range(level0)
    /\ ret # args.snowman_actor_path

\* A family run with random_placement false has returned.
PlainFamilyDone == InFamily /\ pc = "tool_done" /\ ~family.random_placement

\* The positions of a run without randomness, from its inputs alone.
PlainPositions(base, spread) ==
  <<base,
    <<base[1] - 525 * spread, base[2] + 315 * spread, base[3]>>,
    <<base[1] + 630 * spread, base[2] - 210 * spread, base[3]>>>>

\* The helper calls are a spawn and then duplicates on the spawned actor,
\* each at the position the inputs determine.
CallsAsDetermined ==
  /\ family.calls[1].helper = "spawn_blueprint_actor"
  /\ \A k \in 1..Len(family.calls) :
       /\ family.calls[k].location = PlainPositions(family.base, family.spread)[k]
       /\ k > 1 => /\ family.calls[k].helper = "duplicate_snowman"
                   /\ family.calls[k].source = family.first_snowman
                   /\ family.first_snowman # NoRef

\* C16: spawn_actor_family with randomize=false makes exactly 3
\* spawn/duplicate attempts (one spawn, then two duplicate operations on the
\* spawned actor), and the positions it uses are a function of (base_x,
\* base_y, base_z, spread) alone.
C16_ExactlyThreeAttempts ==
  PlainFamilyDone => (Len(family.calls) = 3 /\ CallsAsDetermined)

\* C16 (amended): spawn_actor_family with randomize=false makes one spawn
\* attempt and, when the spawn returned a reference, exactly two duplicate
\* operations on the spawned actor, three attempts in all; when the spawn
\* returned no reference it makes that one attempt only; the positions it
\* uses are a function of (base_x, base_y, base_z, spread) alone.
C16_ThreeAttemptsAfterSpawn ==
  PlainFamilyDone =>
    /\ Len(family.calls) = (IF family.first_snowman # NoRef THEN 3 ELSE 1)
    /\ CallsAsDetermined

\* A run with spread 2 off the origin whose three helper calls were made.
C16_Witness ==
  /\ PlainFamilyDone
  /\ Len(family.calls) = 3
  /\ family.spread = 2
  /\ family.calls[3].location # family.calls[2].location
  /\ response.success

Reverse(s) == [i \in 1..Len(s) |-> s[Len(s) + 1 - i]]

\* The listing with its elements in another order and every element twice.
Rearranged(s) == Reverse(s) \o s

\* C17: the set of new actors computed by the snapshot diff depends only on
\* set membership: for any before and after listings it equals set(after)
\* minus set(before), and it is unchanged by permuting either listing or by
\* repeating elements in either listing.
C17_DiffIsSetDifference ==
  probe.applied =>
    /\ Range(probe.new) = Range(probe.after) \ Range(probe.before)
    /\ \A a \in {probe.after, Reverse(probe.after), Rearranged(probe.after)} :
         \A b \in {probe.before, Reverse(probe.before), Rearranged(probe.before)} :
           Range(new_actors(a, b)) = Range(probe.new)

\* Listings with a repeated element and in different orders, with a
\* non-empty difference.
C17_Witness ==
  /\ probe.applied
  /\ probe.after = <<2, 1, 2>>
  /\ probe.before = <<3, 1>>
  /\ probe.new = <<2, 2>>

\* Two invocations of duplicate are in progress on the same level.
Interleaved == parked # NoTask /\ pc # "idle" /\ parked.pc # "idle"

\* The running invocation took its reference from the snapshot diff.
ResolvedByDiff == new_actor_path # NoRef /\ result = NoRef

\* The actor was created by a Duplicate call of the other invocation.
MadeByOther(r) == r \in DOMAIN actors /\ actors[r].made_by \notin {0, me}

\* C18: with two duplicate invocations interleaved at their settle
\* suspension points against the same level, one invocation can resolve, by
\* diff, the actor created by the other invocation's Duplicate call; it does
\* so only by diff, never from its own call's return value, and only for an
\* actor that its own before-snapshot does not hold.
C18_MisattributionOnlyByDiff ==
  (parked # NoTask /\ new_actor_path # NoRef /\ MadeByOther(new_actor_path)) =>
    /\ ResolvedByDiff
    /\ new_actor_path \notin Range(before_actors)

\* One invocation, whose before-snapshot was the level at the start, has
\* returned as its duplicate the actor that the other invocation's Duplicate
\* call created, while its own copy is another actor.
C18_Witness ==
  /\ Interleaved
  /\ pc = "dup_done"
  /\ ret # NoRef
  /\ ResolvedByDiff
  /\ MadeByOther(ret)
  /\ before_actors = level0
  /\ \E r \in DOMAIN actors : actors[r].made_by = me

\* A tool has returned its result.
ToolReturned == pc \in {"tool_done", "list_done"} /\ response # NoResponse

\* C15: every tool call (get_all_scene_actors, spawn_actor,
\* spawn_actor_family, modify_actor) returns a structured result with an
\* explicit success flag and, when the operation failed, a transport
\* failure included, a human-readable error string.
C15_ResultHasSuccessFlag ==
  ToolReturned =>
    /\ response.kind = "json"
    /\ "success" \in DOMAIN response
    /\ ~response.success => "error" \in DOMAIN response
    /\ (IsList /\ Raises(log[1].resp)) => ~response.success

\* One of the four tools is running or has returned.
InTool == IsList \/ IsSpawn \/ InFamily \/ IsMod

\* C14: no transport failure propagates unhandled to the tool surface: for
\* each of the four tools and for every combination of transport outcomes
\* of the calls it issues, the invocation runs to completion and returns a
\* result instead of raising: it is never left with an exception, and as
\* long as it has not returned its result it has a next step to take.
C14_ToolsRunToCompletion ==
  InTool =>
    /\ pc # "raised"
    /\ ToolReturned \/ ENABLED Next
    /\ pc \in {"tool_done", "list_done"} => response.kind \in {"json", "text"}

\* A modify run for two groups both of whose get calls timed out, answered
\* with a structured result.
C14_Witness ==
  /\ IsMod
  /\ pc = "tool_done"
  /\ Len(log) = 2
  /\ \A i \in 1..2 : log[i].resp.status = "Timeout"
  /\ response.kind = "json"
  /\ ~response.success

\* The remote calls of a duplicate so far: one listing first, each
\* Duplicate call right after a listing, every further listing right after
\* a Duplicate call, and the Set* calls after all of these.
DupLogShape ==
  IsDup =>
    \A i \in 1..Len(log) :
      /\ i = 1 => log[i].fn = "GetAllLevelActors"
      /\ (i > 1 /\ log[i].fn = "GetAllLevelActors") => log[i - 1].fn = "Duplicate"
      /\ log[i].fn = "Duplicate" => log[i - 1].fn = "GetAllLevelActors"
      /\ (i > 1 /\ log[i - 1].fn \in SetFns) => log[i].fn \in SetFns

\* The step issues a GetAllLevelActors call.
TakesSnapshot == Len(log') = Len(log) + 1 /\ log'[Len(log')].fn = "GetAllLevelActors"

\* The step issues a Duplicate call.
IssuesDuplicate == Len(log') = Len(log) + 1 /\ log'[Len(log')].fn = "Duplicate"

\* C21: in any execution of duplicate the remote steps are strictly
\* sequential: exactly one before-snapshot is taken and it precedes the
\* first Duplicate call; every after-snapshot is preceded by a settle wait
\* that itself follows the most recent Duplicate call; and the same
\* before-snapshot is the one diffed against in all three variant attempts.
C21_StrictlySequential ==
  /\ []DupLogShape
  /\ [][IsDup' =>
          /\ (TakesSnapshot /\ log # <<>>) => pc = "dup_resolve"
          /\ (pc' = "dup_resolve" /\ pc # "dup_resolve") =>
               (pc = "dup_settle" /\ log' = log /\ Last(log).fn = "Duplicate")
          /\ pc' = "dup_settle" => IssuesDuplicate
          /\ (TakesSnapshot /\ log = <<>>) =>
               before_actors' = ListingOf(log'[1].resp)
          /\ log # <<>> => before_actors' = before_actors
          /\ (new_actor_path' # new_actor_path /\ result = NoRef) =>
               /\ TakesSnapshot
               /\ new_actor_path' \in
                    Range(ListingOf(log'[Len(log')].resp)) \ Range(before_actors)]_vars

\* The third attempt's after-snapshot, diffed against the one
\* before-snapshot, resolved the copy.
C21_Witness ==
  /\ IsDup
  /\ Len(log) = 7
  /\ pc = "dup_set_location"
  /\ before_actors = level0
  /\ new_actor_path \notin Range(before_actors)

\* C22: in duplicate, once a reference is resolved, the three corrective
\* calls set location, set rotation (with the requested pitch/yaw/roll) and
\* set scale are each issued to the resolved reference independently of one
\* another: a failure of one of them does not stop the remaining ones from
\* being issued.
C22_CorrectionsIndependent ==
  (IsDup /\ pc = "dup_done" /\ new_actor_path # NoRef) =>
    /\ \A fn \in {"SetActorLocation", "SetActorRotation", "SetActorScale3D"} :
         \E i \in CallsOf(fn) : log[i].obj = new_actor_path
    /\ \A i \in CallsOf("SetActorRotation") : log[i].params.NewRotation = args.rotation

\* A vector or quaternion of a transform, as a tuple, whatever its encoding.
AsTuple(form, v, quat) ==
  IF form = "array" THEN v
  ELSE IF quat THEN <<v.X, v.Y, v.Z, v.W>>
  ELSE <<v.X, v.Y, v.Z>>

\* The (translation, rotation, scale) triple a transform payload encodes.
TripleOf(t) ==
  [translation |-> AsTuple(t.form, t.Translation, FALSE),
   rotation |-> AsTuple(t.form, t.Rotation, TRUE),
   scale |-> AsTuple(t.form, t.Scale3D, FALSE)]

\* C23: every Duplicate call of one duplicate operation, in any of the
\* three payload variants, carries the same triple: translation equal to
\* the target location, scale equal to the target scale, and rotation equal
\* to the identity quaternion (0,0,0,1) whatever rotation was requested; the
\* requested rotation reaches the engine only through the later
\* set-rotation call.
C23_SameTripleIdentityRotation ==
  IsDup =>
    /\ \A i \in DupIdx :
         TripleOf(log[i].params.NewTransform) =
           [translation |-> args.location, rotation |-> IdentityQuat,
            scale |-> args.scale]
    /\ CallsOf("SetActorRotation") = {} =>
         \A r \in DOMAIN actors \ Range(level0) : actors[r].rotation = <<0, 0, 0>>
    /\ \A i \in CallsOf("SetActorRotation") : log[i].params.NewRotation = args.rotation

\* Three Duplicate calls in the three encodings for a request with a
\* rotation, which the set-rotation call then delivered.
C23_Witness ==
  /\ IsDup
  /\ Cardinality(DupIdx) = 3
  /\ args.rotation # <<0, 0, 0>>
  /\ pc = "dup_return"
  /\ actors[new_actor_path].rotation = args.rotation
  /\ new_actor_path \notin Range(level0)

\* C24: spawn issues its remote calls in the order create, then set scale,
\* then set label; the create call carries location and rotation and no
\* scale; the set-scale call is issued if and only if the create call
\* returned a reference and the requested scale differs from (1,1,1), and
\* the set-label call if and only if the create call returned a reference
\* and a label was requested.
C24_SpawnCallSequence ==
  (IsSpawn /\ SpawnOver) =>
    /\ Len(log) >= 1
    /\ log[1].fn = "SpawnActorFromClass"
    /\ DOMAIN log[1].params = {"ActorClass", "Location", "Rotation"}
    /\ CallsOf("SpawnActorFromClass") = {1}
    /\ \A i \in CallsOf("SetActorScale3D") : \A j \in CallsOf("SetActorLabel") : i < j
    /\ CallsOf("SetActorScale3D") # {} <=>
         (RefReturned(log[1].resp) /\ args.scale # UnitScale)
    /\ CallsOf("SetActorLabel") # {} <=>
         (RefReturned(log[1].resp) /\ Truthy(args.name))

\* C25: modify_actor reports the nothing-requested error ('No modifications
\* were specified') only when no field was specified: when at least one
\* field was specified and every requested group fails, the response
\* reports the per-group failures and not that nothing was requested.
C25_NothingRequestedOnlyWhenEmpty ==
  (IsMod /\ pc = "tool_done" /\ ~NothingSpecified) =>
    ~("error" \in DOMAIN response /\ response.error = "No modifications were specified")

FamilyDone == InFamily /\ pc = "tool_done"

\* The helper calls that handed back a reference, in the order made.
Successful(calls) == SelectSeq(calls, LAMBDA c : c.returned # NoRef)

\* C26: spawn_actor_family returns success=true if and only if the initial
\* spawn returned a reference; if the spawn fails no duplicate is attempted
\* and the snowmen list is empty; otherwise both duplicates take the spawned
\* actor (never the previous duplicate) as source, the second duplicate is
\* attempted even when the first fails, and the snowmen list holds, in
\* order, the spawned actor followed by exactly the duplicates that
\* returned a reference (1 to 3 entries, snowmen_count equal to its length).
C26_FamilyOutcome ==
  /\ InFamily =>
       \A k \in 2..Len(family.calls) :
         /\ family.calls[k].helper = "duplicate_snowman"
         /\ family.calls[k].source = family.calls[1].returned
         /\ family.calls[k].source # NoRef
  /\ FamilyDone =>
       LET calls == family.calls
           made == Successful(calls)
       IN
       /\ response.success <=> calls[1].returned # NoRef
       /\ calls[1].returned = NoRef =>
            (Len(calls) = 1 /\ response.snowmen = <<>>)
       /\ calls[1].returned # NoRef =>
            /\ Len(calls) = 3
            /\ Len(response.snowmen) = Len(made)
            /\ \A j \in 1..Len(made) :
                 /\ response.snowmen[j].actor_path = made[j].returned
                 /\ response.snowmen[j].name = made[j].name
            /\ response.snowmen[1].actor_path = calls[1].returned
            /\ Len(response.snowmen) \in 1..3
            /\ response.snowmen_count = Len(response.snowmen)

\* The first duplicate failed, the second was made on the spawned actor and
\* succeeded: the list holds the spawned actor and the third snowman.
C26_Witness ==
  /\ FamilyDone
  /\ response.success
  /\ Len(family.calls) = 3
  /\ family.calls[2].returned = NoRef
  /\ family.calls[3].returned # NoRef
  /\ family.calls[3].source = family.calls[1].returned
  /\ response.snowmen_count = 2
  /\ response.snowmen[2].name = "Snowman_Right"

====
